---- MODULE Spec2Model ----
(***************************************************************************)
(* Model of the RC car controller (src/app/index.tsx): the WebSocket       *)
(* connection life cycle of RCCarController, its reconnect timer, the      *)
(* settings form, the command sender and the camera overlay.               *)
(*                                                                         *)
(* Strings of the program are sequences of one-character strings, so that  *)
(* trimming and the URL construction are computed as the code computes     *)
(* them.  A closure of the program is modelled by the values it captured:  *)
(* a socket and a timer carry the piIP their connectToServer closed over.  *)
(***************************************************************************)
EXTENDS Integers, Sequences, FiniteSets, TLC

VARIABLES
    piIP,                 \* useState piIP (line 39)
    storedIP,             \* AsyncStorage item 'raspberry_pi_ip'
    loaded,               \* loadSavedIP has completed
    isConnected,          \* useState isConnected (line 37)
    connectionError,      \* useState connectionError (line 38)
    connectionAttempts,   \* useState connectionAttempts (line 42)
    wsRef,                \* wsRef.current: a socket id, 0 for null
    reconnectTimeoutRef,  \* reconnectTimeoutRef.current: a timer id, 0 for null
    sockets,              \* the WebSocket objects that can still deliver an event or are held
    timers,               \* the pending setTimeout callbacks
    effectPending,        \* piIP changed: the connection effect has to re-run
    gear, lightsOn, autoMode,   \* useState gear, lightsOn, autoMode (lines 33-36)
    throttle, brake, steering, honkPressed,   \* useState, lines 30-34
    sent,                 \* what the last step handed to WebSocket.send
    failures,             \* history: transport failures since the last open or configure
    dropped,              \* history: that run of failures began with the drop of an Open link
    last,                 \* history: the last step taken and what it saw
    cameraPosition,       \* useState cameraPosition (line 43)
    cameraSize,           \* useState cameraSize (line 44)
    hasLoadedCameraSettings,   \* useState, line 45
    isFullscreen,         \* useState isFullscreen (line 48)
    isResizing,           \* useState isResizing of the camera overlay
    initialSize,          \* initialSize.current of the camera overlay
    pan,                  \* the animated value that places the overlay: offset plus value
    gesture,              \* the pan responder that holds the touch: "none", "drag", "resize"
    storedPosition,       \* AsyncStorage item 'camera_position': <<>> or <<position>>
    storedSize,           \* AsyncStorage item 'camera_size': <<>> or <<size>>
    wrote                 \* history: the storage items the last camera step wrote

vars == <<piIP, storedIP, loaded, isConnected, connectionError, connectionAttempts,
          wsRef, reconnectTimeoutRef, sockets, timers, effectPending,
          gear, lightsOn, autoMode, throttle, brake, steering, honkPressed,
          sent, failures, dropped, last,
          cameraPosition, cameraSize, hasLoadedCameraSettings, isFullscreen,
          isResizing, initialSize, pan, gesture, storedPosition, storedSize, wrote>>

linkVars == <<piIP, storedIP, loaded, isConnected, connectionError, connectionAttempts,
              wsRef, reconnectTimeoutRef, sockets, timers, effectPending>>

ctlVars == <<gear, lightsOn, autoMode, throttle, brake, steering, honkPressed>>

runVars == <<failures, dropped>>

camVars == <<cameraPosition, cameraSize, hasLoadedCameraSettings, isFullscreen,
             isResizing, initialSize, pan, gesture, storedPosition, storedSize, wrote>>

(***************************************************************************)
(* Bounds of the model.                                                    *)
(***************************************************************************)
\* sockets that were closed locally and whose close event is still to come
MaxClosing == 1
\* delayed connects of handleSaveSettings that are still pending
MaxDelayed == 1
\* the failed attempts of a run that are followed while the controls are used
MaxSendFailures == 1

(***************************************************************************)
(* Program constants.                                                      *)
(***************************************************************************)
MaxAttempts == 5
BaseDelayMs == 3000
StepMs == 2000
CapMs == 15000
SaveDelayMs == 500
DefaultControlPort == <<"8", "7", "6", "5">>
DefaultCameraPort == <<"8", "7", "6", "5">>
CameraPath == <<"/", "c", "a", "m", "e", "r", "a">>
CLOSE_NORMAL == 1000
CLOSE_ABNORMAL == 1006
\* close codes the transport can report besides the two above
OtherCodes == {1011}

(***************************************************************************)
(* Strings.                                                                *)
(***************************************************************************)
Digits == {"0", "1", "2", "3", "4", "5", "6", "7", "8", "9"}

Lower(c) ==
    CASE c = "H" -> "h" [] c = "T" -> "t" [] c = "P" -> "p"
      [] c = "S" -> "s" [] c = "W" -> "w" [] OTHER -> c

LowerStr(s) == [i \in 1..Len(s) |-> Lower(s[i])]

StartsWith(s, p) == Len(s) >= Len(p) /\ SubSeq(s, 1, Len(p)) = p

Drop(s, n) == SubSeq(s, n + 1, Len(s))

\* String.prototype.includes
Includes(s, sub) ==
    \E i \in 1..(Len(s) - Len(sub) + 1) : SubSeq(s, i, i + Len(sub) - 1) = sub

RECURSIVE TrimStart(_)
TrimStart(s) == IF s # <<>> /\ Head(s) = " " THEN TrimStart(Tail(s)) ELSE s

RECURSIVE TrimEnd(_)
TrimEnd(s) ==
    IF s # <<>> /\ s[Len(s)] = " " THEN TrimEnd(SubSeq(s, 1, Len(s) - 1)) ELSE s

\* String.prototype.trim
Trim(s) == TrimEnd(TrimStart(s))

\* replace(/^(https?:\/\/)/i, '')
StripHttp(s) ==
    IF StartsWith(LowerStr(s), <<"h", "t", "t", "p", "s", ":", "/", "/">>) THEN Drop(s, 8)
    ELSE IF StartsWith(LowerStr(s), <<"h", "t", "t", "p", ":", "/", "/">>) THEN Drop(s, 7)
    ELSE s

\* StripWs that only knows the lower-case schemes
StripWs_CaseSensitive(s) ==
    IF StartsWith(s, <<"w", "s", "s", ":", "/", "/">>) THEN Drop(s, 6)
    ELSE IF StartsWith(s, <<"w", "s", ":", "/", "/">>) THEN Drop(s, 5)
    ELSE s

\* replace(/^(wss?:\/\/)/i, '')
StripWs(s) ==
    IF StartsWith(LowerStr(s), <<"w", "s", "s", ":", "/", "/">>) THEN Drop(s, 6)
    ELSE IF StartsWith(LowerStr(s), <<"w", "s", ":", "/", "/">>) THEN Drop(s, 5)
    ELSE s

\* replace(/\/+$/, '')
RECURSIVE StripTrailingSlashes(_)
StripTrailingSlashes(s) ==
    IF s # <<>> /\ s[Len(s)] = "/"
    THEN StripTrailingSlashes(SubSeq(s, 1, Len(s) - 1))
    ELSE s

\* the number of digits s ends with
RECURSIVE TrailingDigits(_)
TrailingDigits(s) ==
    IF s # <<>> /\ s[Len(s)] \in Digits
    THEN 1 + TrailingDigits(SubSeq(s, 1, Len(s) - 1))
    ELSE 0

\* StripPort that keeps the port
StripPort_Keep(s) == s

\* replace(/:\d+$/, '')
StripPort(s) ==
    LET n == TrailingDigits(s) IN
    IF n >= 1 /\ Len(s) > n /\ s[Len(s) - n] = ":"
    THEN SubSeq(s, 1, Len(s) - n - 1)
    ELSE s

NgrokFreeDev == <<".", "n", "g", "r", "o", "k", "-", "f", "r", "e", "e", ".", "d", "e", "v">>
NgrokFreeApp == <<".", "n", "g", "r", "o", "k", "-", "f", "r", "e", "e", ".", "a", "p", "p">>
NgrokDot == <<".", "n", "g", "r", "o", "k", ".">>
DotNgrok == <<".", "n", "g", "r", "o", "k">>

\* connectToServer, lines 146-149
CleanIP(ip) == StripTrailingSlashes(StripWs(StripHttp(Trim(ip))))

\* connectToServer, line 153
IsNgrok(clean) ==
    Includes(clean, NgrokFreeDev) \/ Includes(clean, NgrokFreeApp) \/ Includes(clean, NgrokDot)

\* ControlUrl that appends the default port to every plain address
ControlUrl_AlwaysDefault(ip) ==
    IF IsNgrok(CleanIP(ip)) THEN <<"w", "s", "s", ":", "/", "/">> \o StripPort(CleanIP(ip))
    ELSE <<"w", "s", ":", "/", "/">> \o CleanIP(ip) \o <<":">> \o DefaultControlPort

\* connectToServer, lines 151-161: the URL handed to new WebSocket
ControlUrl(ip) ==
    LET clean == CleanIP(ip) IN
    IF IsNgrok(clean) THEN <<"w", "s", "s", ":", "/", "/">> \o StripPort(clean)
    ELSE IF Includes(clean, <<":">>) THEN <<"w", "s", ":", "/", "/">> \o clean
    ELSE <<"w", "s", ":", "/", "/">> \o clean \o <<":">> \o DefaultControlPort

\* the "Trying:" text with the port left on an ngrok address
TryingUrl_KeepsPort(ip) ==
    LET cleanIP == StripTrailingSlashes(StripWs(StripHttp(Trim(ip)))) IN
    IF IsNgrok(cleanIP) THEN <<"w", "s", "s", ":", "/", "/">> \o cleanIP
    ELSE IF ~Includes(cleanIP, <<":">>)
    THEN <<"w", "s", ":", "/", "/">> \o cleanIP \o <<":", "8", "7", "6", "5">>
    ELSE <<"w", "s", ":", "/", "/">> \o cleanIP

\* the URL of the error panel, "Trying: ...", lines 401-410
TryingUrl(ip) ==
    LET cleanIP == StripTrailingSlashes(StripWs(StripHttp(Trim(ip))))
        host == StripPort(cleanIP)
    IN  IF IsNgrok(cleanIP) THEN <<"w", "s", "s", ":", "/", "/">> \o host
        ELSE IF ~Includes(cleanIP, <<":">>)
        THEN <<"w", "s", ":", "/", "/">> \o cleanIP \o <<":", "8", "7", "6", "5">>
        ELSE <<"w", "s", ":", "/", "/">> \o cleanIP

\* DraggableResizableCamera, line 879: cleanIP (piIP is not trimmed here)
CameraCleanIP(ip) == StripTrailingSlashes(StripWs(StripHttp(ip)))

\* CameraUrl that is plain http for every address
CameraUrl_Plain(ip) ==
    <<"h", "t", "t", "p", ":", "/", "/">> \o StripPort(CameraCleanIP(ip)) \o CameraPath

\* DraggableResizableCamera, lines 879-891: cameraUrl
CameraUrl(ip) ==
    LET clean == CameraCleanIP(ip) IN
    IF IsNgrok(clean)
    THEN <<"h", "t", "t", "p", "s", ":", "/", "/">> \o StripPort(clean) \o CameraPath
    ELSE IF Includes(clean, <<":">>)
    THEN <<"h", "t", "t", "p", ":", "/", "/">> \o clean \o CameraPath
    ELSE <<"h", "t", "t", "p", ":", "/", "/">> \o clean \o <<":">> \o DefaultCameraPort
                \o CameraPath

\* new WebSocket(url) throws a SyntaxError on a URL that does not parse; a
\* URL with white space in its host is one
CanConstruct(url) == ~Includes(url, <<" ">>)

Count(s, c) == Cardinality({i \in 1..Len(s) : s[i] = c})

\* a '[' without its ']' or a ']' without its '['
MalformedBrackets(s) ==
    \/ Count(s, "[") # Count(s, "]")
    \/ \E i \in 1..Len(s) :
           s[i] = "]" /\ Count(SubSeq(s, 1, i), "[") < Count(SubSeq(s, 1, i), "]")

\* what new WebSocket(url) can do with url: TRUE, a socket is made; FALSE, it
\* throws.  connectToServer does not look at brackets; a constructor that
\* parses the URL (a browser's) throws on an unmatched one, one that hands the
\* string to the native module (React Native's) makes the socket, which fails
\* later.
Constructs(url) ==
    IF ~CanConstruct(url) THEN {FALSE}
    ELSE IF MalformedBrackets(url) THEN BOOLEAN
    ELSE {TRUE}

(***************************************************************************)
(* What the settings form can hold when Save is pressed, and what the      *)
(* storage can hold at start-up (saveIP only ever stores a trimmed,        *)
(* non-empty string).                                                      *)
(***************************************************************************)
EpA == <<"a">>
EpB == <<"b">>
EpBad == <<"a", " ", "a">>
RawInputs == {<<>>, <<" ">>, EpA, <<"b", " ">>, EpBad}
StoredInputs == {<<>>, EpA, EpBad}

(***************************************************************************)
(* Endpoint strings: bare hosts, with and without a port, of a plain       *)
(* address, of a tunnel and of an IPv6 literal; each also behind a scheme  *)
(* (in any letter case) and before trailing slashes.                       *)
(***************************************************************************)
HostLan == <<"1", "9", "2", ".", "1", "6", "8", ".", "1", ".", "1", "0", "0">>
HostPlain == <<"h">>
HostTunnelApp == <<"a", "b", "c", "1", "2", "3", ".", "n", "g", "r", "o", "k", "-", "f", "r", "e",
      "e", ".", "a", "p", "p">>
HostTunnelDev == <<"x", ".", "n", "g", "r", "o", "k", "-", "f", "r", "e", "e", ".", "d", "e", "v">>
HostTunnelDot == <<"x", ".", "n", "g", "r", "o", "k", ".", "i", "o">>
HostV6 == <<"[", ":", ":", "1", "]">>
HostV6Open == <<"[", ":", ":", "1">>
HostV6Close == <<":", ":", "1", "]">>

PortSuffixes == {<<>>, <<":", "8", "7", "6", "5">>, <<":", "9">>}

PlainHosts == {HostLan, HostPlain}

TunnelHosts == {HostTunnelApp, HostTunnelDev, HostTunnelDot}

V6Hosts == {HostV6, HostV6Open, HostV6Close}

\* an endpoint without a scheme and without trailing slashes
BareEndpoints == {h \o p : h \in PlainHosts \cup TunnelHosts \cup V6Hosts, p \in PortSuffixes}

SchemePrefixes ==
    {<<>>,
     <<"h", "t", "t", "p", ":", "/", "/">>, <<"h", "t", "t", "p", "s", ":", "/", "/">>,
     <<"w", "s", ":", "/", "/">>, <<"w", "s", "s", ":", "/", "/">>,
     <<"H", "T", "T", "P", ":", "/", "/">>, <<"W", "s", "S", ":", "/", "/">>}

SlashSuffixes == {<<>>, <<"/">>, <<"/", "/">>}

\* what the storage can hold in general: any string that was saved, which is
\* trimmed and not empty
\* the address of an ngrok TCP tunnel, host and port
EpTcpTunnel ==
    <<"0", ".", "t", "c", "p", ".", "n", "g", "r", "o", "k", ".", "i", "o", ":", "1", "2", "3", "4", "5">>

ResolveInputs ==
    {x \o b \o k : x \in SchemePrefixes, b \in BareEndpoints, k \in SlashSuffixes}
        \cup {EpTcpTunnel}

\* every value piIP takes: the initial '', a stored one, a saved tempIP.trim()
Endpoints == {<<>>} \cup StoredInputs \cup {Trim(t) : t \in RawInputs} \cup ResolveInputs

\* the URL of each endpoint and whether its address is an ngrok one, computed
\* once for all states
UrlOf == [ip \in Endpoints |-> ControlUrl(ip)]

ViaNgrok == [ip \in Endpoints |-> Includes(CleanIP(ip), DotNgrok)]

(***************************************************************************)
(* The link: the refs and state that connectToServer, disconnectFromServer *)
(* and the socket callbacks read and write, as one record, so that a       *)
(* handler that calls another is the composition of the two.               *)
(***************************************************************************)
Link ==
    [wsRef |-> wsRef, reconnectTimeoutRef |-> reconnectTimeoutRef,
     sockets |-> sockets, timers |-> timers,
     connectionAttempts |-> connectionAttempts,
     isConnected |-> isConnected, connectionError |-> connectionError]

\* a fresh object identity
NewId(f) == CHOOSE i \in 1..(Cardinality(DOMAIN f) + 1) : i \notin DOMAIN f

Without(f, i) == [j \in DOMAIN f \ {i} |-> f[j]]

With(f, i, v) == [j \in DOMAIN f \cup {i} |-> IF j = i THEN v ELSE f[j]]

\* a closed socket that wsRef does not hold delivers no event and is unreachable
Collect(L) ==
    [L EXCEPT !.sockets =
        [i \in {j \in DOMAIN L.sockets :
                    L.sockets[j].readyState # "CLOSED" \/ j = L.wsRef} |-> L.sockets[i]]]

\* wsRef.current?.readyState
ReadyState(L) == IF L.wsRef = 0 THEN "NONE" ELSE L.sockets[L.wsRef].readyState

\* clearTimeout(reconnectTimeoutRef.current); reconnectTimeoutRef.current = null
ClearReconnect(L) ==
    IF L.reconnectTimeoutRef # 0
    THEN [L EXCEPT !.timers = Without(@, L.reconnectTimeoutRef), !.reconnectTimeoutRef = 0]
    ELSE L

\* WebSocket.close(): nothing on a socket that is closing or closed
CloseSocket(L, s) ==
    IF L.sockets[s].readyState \in {"CLOSING", "CLOSED"} THEN L
    ELSE [L EXCEPT !.sockets[s].readyState = "CLOSING"]

\* wsRef.current.close(); wsRef.current = null
ReleaseHandle(L) ==
    IF L.wsRef # 0 THEN [CloseSocket(L, L.wsRef) EXCEPT !.wsRef = 0] ELSE L

\* history: the timers that outlive a close or a teardown were armed before it
MarkStale(L) ==
    [L EXCEPT !.timers = [t \in DOMAIN L.timers |-> [L.timers[t] EXCEPT !.stale = TRUE]]]

\* backoffDelay that does not grow with the counter
backoffDelay_Flat(currentAttempts) == BaseDelayMs + StepMs

\* backoffDelay that multiplies the base delay instead of adding the step
backoffDelay_Multiplied(currentAttempts) ==
    IF BaseDelayMs * (currentAttempts + 1) < CapMs
    THEN BaseDelayMs * (currentAttempts + 1)
    ELSE CapMs

\* Math.min(3000 + (currentAttempts * 2000), 15000), line 211
backoffDelay(currentAttempts) ==
    IF BaseDelayMs + currentAttempts * StepMs < CapMs
    THEN BaseDelayMs + currentAttempts * StepMs
    ELSE CapMs

\* MayReconnect without the check of reconnectTimeoutRef.current
MayReconnect_Unguarded(L) == L.connectionAttempts < MaxAttempts

\* MayReconnect that allows one attempt too many
MayReconnect_OffByOne(L) == L.reconnectTimeoutRef = 0 /\ L.connectionAttempts <= MaxAttempts

\* MayReconnect with the budget of ten attempts
MayReconnect_TenAttempts(L) == L.reconnectTimeoutRef = 0 /\ L.connectionAttempts < 10

\* MayReconnect without the budget
MayReconnect_Unbounded(L) == L.reconnectTimeoutRef = 0

\* line 210: the close callback arms the reconnect timer
MayReconnect(L) == L.reconnectTimeoutRef = 0 /\ L.connectionAttempts < MaxAttempts

\* a check that lets a call through while a socket is connecting
AlreadyConnecting_OpenOnly(L) == ReadyState(L) = "OPEN"

\* lines 134-135: a socket is already connecting or open
AlreadyConnecting(L) == ReadyState(L) \in {"CONNECTING", "OPEN"}

\* line 140: a reconnect is already scheduled
AlreadyScheduled(L) == L.reconnectTimeoutRef # 0

\* the way connectToServer leaves (lines 129-132, 134-138, 140-143, 259-263, 258)
connectOutcome(L, ip, accepts) ==
    IF ip = <<>> \/ Trim(ip) = <<>> THEN "noip"
    ELSE IF AlreadyConnecting(L) THEN "busy"
    ELSE IF AlreadyScheduled(L) THEN "scheduled"
    ELSE IF ~accepts THEN "threw"
    ELSE "created"

\* a catch block that schedules a reconnect
constructionFailed_Retries(L) ==
    [L EXCEPT !.isConnected = FALSE, !.connectionError = "Failed to create connection",
              !.timers = With(@, NewId(L.timers),
                              [kind |-> "reconnect", ip |-> <<>>, delay |-> BaseDelayMs,
                               attempt |-> L.connectionAttempts, stale |-> FALSE]),
              !.reconnectTimeoutRef = NewId(L.timers)]

\* the catch block of connectToServer, lines 259-263
constructionFailed(L) ==
    [L EXCEPT !.isConnected = FALSE, !.connectionError = "Failed to create connection"]

\* connectToServer of the render whose piIP is ip (lines 128-264)
connectToServer(L, ip, accepts) ==
    LET out == connectOutcome(L, ip, accepts)
        L1 == [L EXCEPT !.connectionAttempts = @ + 1]
        L2 == Collect([L1 EXCEPT !.wsRef = 0])
        ws == NewId(L2.sockets)
    IN  CASE out = "noip" ->
                [L EXCEPT !.connectionError = "Please set Raspberry Pi IP address in settings"]
          [] out \in {"busy", "scheduled"} -> L
          [] out = "threw" -> constructionFailed(L1)
          [] out = "created" ->
                [L2 EXCEPT !.sockets = With(@, ws, [readyState |-> "CONNECTING",
                                                    url |-> UrlOf[ip], ip |-> ip]),
                           !.wsRef = ws]

\* onopen that leaves the reconnect timer armed
onopen_KeepsTimer(L, s) ==
    [L EXCEPT !.isConnected = TRUE, !.connectionError = "", !.connectionAttempts = 0]

\* ws.onopen, lines 169-178
onopen(L, s) ==
    ClearReconnect([L EXCEPT !.isConnected = TRUE, !.connectionError = "",
                             !.connectionAttempts = 0])

\* what a message event carries: a string (text) or binary data
Payload(text, body) == [text |-> text, body |-> body]

\* the text of an object, bare and within spaces; text that starts with '{'
\* and does not parse; text that is not JSON; the empty string; binary data
Payloads ==
    {Payload(TRUE, <<"{", "}">>), Payload(TRUE, <<" ", "{", "}", " ">>),
     Payload(TRUE, <<"{", "x">>), Payload(TRUE, <<"h", "i">>),
     Payload(TRUE, <<>>), Payload(FALSE, <<>>)}

\* JSON.parse returns rather than throws; of the bodies of Payloads that start
\* with '{' after trimming, the ones that are the empty object within spaces
JsonParses(body) == Trim(body) = <<"{", "}">>

\* the branch of ws.onmessage that data takes, lines 181-190
received(data) ==
    IF data.text /\ StartsWith(Trim(data.body), <<"{">>)
    THEN IF JsonParses(data.body) THEN "parsed" ELSE "parseError"
    ELSE "nonJson"

\* an onmessage that gives the link up when the text does not parse
onmessage_ClosesOnError(L, s, data) ==
    IF received(data) = "parsed"
    THEN L
    ELSE [L EXCEPT !.sockets[s].readyState = "CLOSING", !.isConnected = FALSE]

\* ws.onmessage, lines 180-191: every branch only logs
onmessage(L, s, data) == L

\* lines 197-207
CloseMessage(L, s, code) ==
    IF code = CLOSE_ABNORMAL
    THEN IF ViaNgrok[L.sockets[s].ip]
         THEN "ngrok connection failed. Is Python server running?"
         ELSE "Connection failed. Is the server running?"
    ELSE IF code = CLOSE_NORMAL THEN "Connection closed normally"
    ELSE "Connection closed (code)"

\* an onclose that arms the timer after an abnormal close only
onclose_AbnormalOnly(L, s, code) ==
    LET L1 == [L EXCEPT !.isConnected = FALSE, !.connectionError = CloseMessage(L, s, code)]
        t == NewId(L1.timers)
    IN  IF MayReconnect(L1) /\ code = CLOSE_ABNORMAL
        THEN [L1 EXCEPT !.timers = With(@, t,
                            [kind |-> "reconnect", ip |-> L1.sockets[s].ip,
                             delay |-> backoffDelay(L1.connectionAttempts),
                             attempt |-> L1.connectionAttempts, stale |-> FALSE]),
                        !.reconnectTimeoutRef = t]
        ELSE L1

\* ws.onclose, lines 193-226
onclose(L, s, code) ==
    LET L1 == [L EXCEPT !.isConnected = FALSE, !.connectionError = CloseMessage(L, s, code)]
        t == NewId(L1.timers)
    IN  IF MayReconnect(L1)
        THEN [L1 EXCEPT !.timers = With(@, t,
                            [kind |-> "reconnect", ip |-> L1.sockets[s].ip,
                             delay |-> backoffDelay(L1.connectionAttempts),
                             attempt |-> L1.connectionAttempts, stale |-> FALSE]),
                        !.reconnectTimeoutRef = t]
        ELSE IF L1.connectionAttempts >= MaxAttempts
        THEN [L1 EXCEPT !.connectionError =
                 "Failed after 5 attempts. Check settings and restart server."]
        ELSE L1

\* ws.onerror, lines 228-256
onerror(L, s) ==
    [L EXCEPT !.isConnected = FALSE,
              !.connectionError =
                  IF ViaNgrok[L.sockets[s].ip]
                  THEN "Unable to connect to ngrok server"
                  ELSE "Connection failed"]

\* disconnectFromServer, lines 266-276
disconnectFromServer(L) ==
    MarkStale([ReleaseHandle(ClearReconnect(L)) EXCEPT !.connectionAttempts = 0])

\* the cleanup of the connection effect, lines 282-291
effectCleanup(L) == MarkStale(ReleaseHandle(ClearReconnect(L)))

\* the condition of the connection effect, line 279
effectConnects(L, ip) == ip # <<>> /\ ~L.isConnected /\ L.reconnectTimeoutRef = 0

\* the body of the connection effect, lines 279-281
effectBody(L, ip, accepts) ==
    IF effectConnects(L, ip) THEN connectToServer(L, ip, accepts) ELSE L

\* the transport's event: readyState is set before the callbacks run
MarkClosed(L, s) == [L EXCEPT !.sockets[s].readyState = "CLOSED"]

MarkOpen(L, s) == [L EXCEPT !.sockets[s].readyState = "OPEN"]

Commit(L) ==
    \E G \in {Collect(L)} :
    /\ wsRef' = G.wsRef
    /\ reconnectTimeoutRef' = G.reconnectTimeoutRef
    /\ sockets' = G.sockets
    /\ timers' = G.timers
    /\ connectionAttempts' = G.connectionAttempts
    /\ isConnected' = G.isConnected
    /\ connectionError' = G.connectionError

(***************************************************************************)
(* The steps of the program.  A state update that changes piIP re-renders  *)
(* and re-runs the connection effect before the next event is handled.     *)
(***************************************************************************)
None == [i \in {} |-> 0]

\* history: the step op; rs is the readyState it found (of the socket of a
\* transport event, of wsRef otherwise); res and ip are the way its call of
\* connectToServer left and the piIP of that call ("none" without a call);
\* stale tells that the timer that fired was armed before a close or teardown
Step(op, rs, res, ip, stale) ==
    [op |-> op, rs |-> rs, res |-> res, ip |-> ip, stale |-> stale,
     preRef |-> reconnectTimeoutRef, preAtt |-> connectionAttempts]

Closing == {s \in DOMAIN sockets : sockets[s].readyState = "CLOSING"}

Delayed == {t \in DOMAIN timers : timers[t].kind = "delayed"}

Reconnects == {t \in DOMAIN timers : timers[t].kind = "reconnect"}

\* Math.max and Math.min
Max(a, b) == IF a >= b THEN a ELSE b

Min(a, b) == IF a <= b THEN a ELSE b

\* lengths are in quarters of a point, so that the default height of the
\* camera overlay, width * 0.75 * (9/16), is an integer
Pt(n) == 4 * n

\* Dimensions.get("window"), line 22
ViewportWidth == Pt(400)
ViewportHeight == Pt(800)

Position(x, y) == [x |-> x, y |-> y]

Size(w, h) == [width |-> w, height |-> h]

\* useState({ x: 20, y: 120 }), line 43
DefaultPosition == Position(Pt(20), Pt(120))

\* useState({ width: width * 0.75, height: (width * 0.75) * (9/16) }), line 44
DefaultSize ==
    Size((ViewportWidth * 3) \div 4, (((ViewportWidth * 3) \div 4) * 9) \div 16)

\* what an earlier run of the app left in storage
StoredPositions == {<<>>, <<Position(0, 0)>>, <<Position(Pt(100), Pt(600))>>}

StoredSizes == {<<>>, <<Size(Pt(300), Pt(200))>>}

Boot(stored, positions, sizes) ==
    /\ piIP = <<>>
    /\ storedIP \in stored
    /\ loaded = FALSE
    /\ isConnected = FALSE
    /\ connectionError = ""
    /\ connectionAttempts = 0
    /\ wsRef = 0
    /\ reconnectTimeoutRef = 0
    /\ sockets = None
    /\ timers = None
    /\ effectPending = FALSE
    /\ gear = 1
    /\ lightsOn = FALSE
    /\ autoMode = FALSE
    /\ throttle = 0
    /\ brake = 0
    /\ steering = 0
    /\ honkPressed = FALSE
    /\ sent = <<>>
    /\ failures = 0
    /\ dropped = FALSE
    /\ last = [op |-> "init", rs |-> "NONE", res |-> "none", ip |-> <<>>, stale |-> FALSE,
               preRef |-> 0, preAtt |-> 0]
    /\ cameraPosition = DefaultPosition
    /\ cameraSize = DefaultSize
    /\ hasLoadedCameraSettings = FALSE
    /\ isFullscreen = FALSE
    /\ isResizing = FALSE
    /\ initialSize = DefaultSize
    /\ pan = DefaultPosition
    /\ gesture = "none"
    /\ storedPosition \in positions
    /\ storedSize \in sizes
    /\ wrote = {}

\* the app started with nothing of the camera overlay in storage
Start(stored) == Boot(stored, {<<>>}, {<<>>})

Init == Start(StoredInputs)

\* loadSavedIP, lines 64-75
LoadSavedIP ==
    /\ ~loaded
    /\ ~effectPending
    /\ loaded' = TRUE
    /\ piIP' = IF storedIP # <<>> THEN storedIP ELSE piIP
    /\ effectPending' = (piIP' # piIP)
    /\ last' = Step("load", ReadyState(Link), "none", <<>>, FALSE)
    /\ sent' = <<>>
    /\ failures' = 0
    /\ dropped' = FALSE
    /\ UNCHANGED <<storedIP, isConnected, connectionError, connectionAttempts, wsRef,
                   reconnectTimeoutRef, sockets, timers, ctlVars, camVars>>

\* handleSaveSettings that forgets the delayed connect
handleSaveSettings_NoReconnect(L, ip) ==
    [disconnectFromServer(L) EXCEPT !.connectionAttempts = 0]

\* handleSaveSettings past its check, lines 302-310: ip is the piIP of the
\* render, which the connectToServer of the delayed connect closed over
handleSaveSettings(L, ip) ==
    LET L1 == [disconnectFromServer(L) EXCEPT !.connectionAttempts = 0]
        d == NewId(L1.timers)
    IN  [L1 EXCEPT !.timers = With(@, d,
                       [kind |-> "delayed", ip |-> ip, delay |-> SaveDelayMs,
                        attempt |-> 0, stale |-> FALSE])]

\* handleSaveSettings without the check of lines 297-300
HandleSaveSettings_NoCheck(t) ==
    /\ loaded
    /\ ~effectPending
    /\ Commit(handleSaveSettings(Link, piIP))
    /\ piIP' = Trim(t)
    /\ storedIP' = Trim(t)
    /\ effectPending' = (piIP' # piIP)
    /\ last' = Step(IF Trim(t) = <<>> THEN "saveEmpty" ELSE "save",
                    ReadyState(Link), "none", <<>>, FALSE)
    /\ failures' = 0
    /\ dropped' = FALSE
    /\ sent' = <<>>
    /\ UNCHANGED <<loaded, ctlVars, camVars>>

\* handleSaveSettings with tempIP = t, lines 295-311
HandleSaveSettings(t) ==
    /\ loaded
    /\ ~effectPending
    /\ IF Trim(t) = <<>>
       THEN /\ connectionError' = "IP address cannot be empty"
            /\ last' = Step("saveEmpty", ReadyState(Link), "none", <<>>, FALSE)
            /\ UNCHANGED <<piIP, storedIP, isConnected, connectionAttempts, wsRef,
                           reconnectTimeoutRef, sockets, timers, effectPending, runVars>>
       ELSE /\ Cardinality(Delayed) < MaxDelayed
            /\ Cardinality(Closing) + (IF AlreadyConnecting(Link) THEN 1 ELSE 0) <= MaxClosing
            /\ Commit(handleSaveSettings(Link, piIP))
            /\ piIP' = Trim(t)
            /\ storedIP' = Trim(t)
            /\ effectPending' = (piIP' # piIP)
            /\ last' = Step("save", ReadyState(Link), "none", <<>>, FALSE)
            /\ failures' = 0
            /\ dropped' = FALSE
    /\ sent' = <<>>
    /\ UNCHANGED <<loaded, ctlVars, camVars>>

\* the connection effect re-runs: the cleanup of the last run, then its body
\* with the new piIP and the isConnected of this render (lines 278-293)
connectionEffect(L, ip, accepts) == effectBody(effectCleanup(L), ip, accepts)

RunEffect ==
    /\ effectPending
    /\ \E accepts \in Constructs(UrlOf[piIP]) :
          /\ Commit(connectionEffect(Link, piIP, accepts))
          /\ last' = Step("effect", ReadyState(Link),
                          IF effectConnects(effectCleanup(Link), piIP)
                          THEN connectOutcome(effectCleanup(Link), piIP, accepts)
                          ELSE "none",
                          IF effectConnects(effectCleanup(Link), piIP) THEN piIP ELSE <<>>,
                          FALSE)
    /\ effectPending' = FALSE
    /\ sent' = <<>>
    /\ UNCHANGED <<piIP, storedIP, loaded, ctlVars, runVars, camVars>>

\* the handshake of socket s succeeds
TransportOpen(s) ==
    /\ ~effectPending
    /\ sockets[s].readyState = "CONNECTING"
    /\ Commit(onopen(MarkOpen(Link, s), s))
    /\ last' = Step("open", sockets[s].readyState, "none", <<>>, FALSE)
    /\ sent' = <<>>
    /\ failures' = 0
    /\ dropped' = FALSE
    /\ UNCHANGED <<piIP, storedIP, loaded, effectPending, ctlVars, camVars>>

\* a message of the server arrives on socket s
TransportMessage(s, data) ==
    /\ ~effectPending
    /\ sockets[s].readyState = "OPEN"
    /\ Commit(onmessage(Link, s, data))
    /\ last' = Step("message", sockets[s].readyState, received(data), <<>>, FALSE)
    /\ sent' = <<>>
    /\ UNCHANGED <<piIP, storedIP, loaded, effectPending, ctlVars, runVars, camVars>>

\* history: a close event of a socket that was not closed locally is a failure
CountFailure(s) ==
    IF sockets[s].readyState \in {"CONNECTING", "OPEN"}
    THEN /\ failures' = failures + 1
         /\ dropped' = IF failures = 0 THEN sockets[s].readyState = "OPEN" ELSE dropped
    ELSE UNCHANGED runVars

\* socket s fails: an error event, then a close event with code 1006
TransportFailed(s) ==
    /\ ~effectPending
    /\ sockets[s].readyState # "CLOSED"
    /\ Commit(onclose(onerror(MarkClosed(Link, s), s), s, CLOSE_ABNORMAL))
    /\ last' = Step("failed", sockets[s].readyState, "none", <<>>, FALSE)
    /\ sent' = <<>>
    /\ CountFailure(s)
    /\ UNCHANGED <<piIP, storedIP, loaded, effectPending, ctlVars, camVars>>

\* socket s is closed by the peer, or its local close completes
TransportClosed(s, code) ==
    /\ ~effectPending
    /\ sockets[s].readyState \in {"OPEN", "CLOSING"}
    /\ Commit(onclose(MarkClosed(Link, s), s, code))
    /\ last' = Step("closed", sockets[s].readyState, "none", <<>>, FALSE)
    /\ sent' = <<>>
    /\ CountFailure(s)
    /\ UNCHANGED <<piIP, storedIP, loaded, effectPending, ctlVars, camVars>>

\* what the callback of timer t sees: the timer is gone, and the callback of
\* the reconnect timer starts with reconnectTimeoutRef.current = null (line 214)
Fired(L, t) ==
    IF L.timers[t].kind = "reconnect"
    THEN [L EXCEPT !.timers = Without(@, t), !.reconnectTimeoutRef = 0]
    ELSE [L EXCEPT !.timers = Without(@, t)]

\* the callbacks of the reconnect timer (lines 213-216) and of the delayed
\* connect of handleSaveSettings (lines 308-310)
timerCallback(L, t, accepts) == connectToServer(Fired(L, t), L.timers[t].ip, accepts)

\* A reconnect timer (3000 ms or more) that is pending together with a delayed
\* connect (500 ms) was armed after it, since handleSaveSettings clears the
\* reconnect timer before it arms the delayed connect: the delayed connect is
\* due first.
Due(t) == timers[t].kind = "reconnect" => Delayed = {}

FireTimer(t) ==
    /\ ~effectPending
    /\ Due(t)
    /\ \E accepts \in Constructs(UrlOf[timers[t].ip]) :
          /\ Commit(timerCallback(Link, t, accepts))
          /\ last' = Step(IF timers[t].kind = "reconnect" THEN "fireReconnect"
                          ELSE "fireDelayed",
                          ReadyState(Link),
                          connectOutcome(Fired(Link, t), timers[t].ip, accepts),
                          timers[t].ip, timers[t].stale)
    /\ sent' = <<>>
    /\ UNCHANGED <<piIP, storedIP, loaded, effectPending, ctlVars, runVars, camVars>>

(***************************************************************************)
(* The controls.  sendCommand yields the messages it hands to the socket;  *)
(* sent holds what the last step transmitted.                              *)
(***************************************************************************)
AxisInputs == {-1, 0, 1}

BrakeInputs == {0, 1}

Abs(v) == IF v < 0 THEN -v ELSE v

\* a message built from the settings of the first render
Message_Initial(type, value) ==
    [type |-> type, value |-> value, gear |-> 1, lights |-> FALSE, auto |-> FALSE]

\* JSON.stringify({ type, value, gear, lights: lightsOn, auto: autoMode })
Message(type, value) ==
    [type |-> type, value |-> value, gear |-> gear, lights |-> lightsOn, auto |-> autoMode]

\* sendCommand that does not look at readyState
sendCommand_Unchecked(type, value) == <<Message(type, value)>>

\* sendCommand, lines 313-319
sendCommand(type, value) ==
    IF wsRef # 0 /\ sockets[wsRef].readyState = "OPEN"
    THEN <<Message(type, value)>>
    ELSE <<>>

\* a handler of the controls touches nothing of the link
ControlStep(op) ==
    /\ ~effectPending
    /\ last' = Step(op, ReadyState(Link), "none", <<>>, FALSE)
    /\ UNCHANGED <<linkVars, gear, lightsOn, autoMode, runVars, camVars>>

\* a throttle handler that sends the signed value on the backward half
HandleThrottleChange_Signed(value) ==
    /\ ControlStep("throttle")
    /\ throttle' = value
    /\ sent' = IF value >= 0
               THEN sendCommand("throttle_forward", value)
                        \o sendCommand("throttle_backward", 0)
               ELSE sendCommand("throttle_forward", 0)
                        \o sendCommand("throttle_backward", value)
    /\ UNCHANGED <<brake, steering, honkPressed>>

\* handleThrottleChange, lines 321-330
HandleThrottleChange(value) ==
    /\ ControlStep("throttle")
    /\ throttle' = value
    /\ sent' = IF value >= 0
               THEN sendCommand("throttle_forward", value)
                        \o sendCommand("throttle_backward", 0)
               ELSE sendCommand("throttle_forward", 0)
                        \o sendCommand("throttle_backward", Abs(value))
    /\ UNCHANGED <<brake, steering, honkPressed>>

\* handleBrakeChange, lines 332-335
HandleBrakeChange(value) ==
    /\ ControlStep("brake")
    /\ brake' = value
    /\ sent' = sendCommand("brake", value)
    /\ UNCHANGED <<throttle, steering, honkPressed>>

\* handleSteeringChange, lines 337-346
HandleSteeringChange(value) ==
    /\ ControlStep("steering")
    /\ steering' = value
    /\ sent' = IF value >= 0
               THEN sendCommand("steering_right", value)
                        \o sendCommand("steering_left", 0)
               ELSE sendCommand("steering_right", 0)
                        \o sendCommand("steering_left", Abs(value))
    /\ UNCHANGED <<throttle, brake, honkPressed>>

\* handleHonkPress, lines 348-351
HandleHonkPress ==
    /\ ControlStep("honkPress")
    /\ honkPressed' = TRUE
    /\ sent' = sendCommand("honk", TRUE)
    /\ UNCHANGED <<throttle, brake, steering>>

\* handleHonkRelease, lines 353-356
HandleHonkRelease ==
    /\ ControlStep("honkRelease")
    /\ honkPressed' = FALSE
    /\ sent' = sendCommand("honk", FALSE)
    /\ UNCHANGED <<throttle, brake, steering>>

\* the values the sliders report: clamped to [-100, 100], 0 on release
AxisSamples == {-100, -42, 0, 42, 100}

GearInputs == {1, 2, 3}

\* JSON.stringify({ type: "settings", gear, lights: lightsOn, auto: autoMode })
SettingsMessage(g, l, a) == [type |-> "settings", gear |-> g, lights |-> l, auto |-> a]

\* a settings effect that sends the settings of the render before
settingsEffect_Stale(g, l, a) ==
    IF wsRef # 0 /\ sockets[wsRef].readyState = "OPEN"
    THEN <<SettingsMessage(gear, lightsOn, autoMode)>>
    ELSE <<>>

\* settingsEffect that does not look at readyState
settingsEffect_Unchecked(g, l, a) == <<SettingsMessage(g, l, a)>>

\* the effect on [gear, lightsOn, autoMode], lines 358-368, in the render
\* whose settings are g, l, a
settingsEffect(g, l, a) ==
    IF wsRef # 0 /\ sockets[wsRef].readyState = "OPEN"
    THEN <<SettingsMessage(g, l, a)>>
    ELSE <<>>

\* a setter of the settings: the state changes, the component renders again
\* and, if one of the three differs, the effect runs
SettingsStep(op, g, l, a) ==
    /\ ~effectPending
    /\ gear' = g
    /\ lightsOn' = l
    /\ autoMode' = a
    /\ sent' = IF <<g, l, a>> # <<gear, lightsOn, autoMode>>
               THEN settingsEffect(g, l, a)
               ELSE <<>>
    /\ last' = Step(op, ReadyState(Link), "none", <<>>, FALSE)
    /\ UNCHANGED <<linkVars, throttle, brake, steering, honkPressed, runVars, camVars>>

\* onPress={() => setGear(g)}, line 519
SetGear(g) == SettingsStep("gear", g, lightsOn, autoMode)

\* onPress={() => setLightsOn(!lightsOn)}, line 555
ToggleLights == SettingsStep("lights", gear, ~lightsOn, autoMode)

\* onPress={() => setAutoMode(!autoMode)}, line 574
ToggleAuto == SettingsStep("auto", gear, lightsOn, ~autoMode)

ControlNext ==
    \/ \E v \in AxisInputs : HandleThrottleChange(v)
    \/ \E v \in BrakeInputs : HandleBrakeChange(v)
    \/ \E v \in AxisInputs : HandleSteeringChange(v)
    \/ HandleHonkPress
    \/ HandleHonkRelease

LinkNext ==
    \/ LoadSavedIP
    \/ \E t \in RawInputs : HandleSaveSettings(t)
    \/ RunEffect
    \/ \E s \in DOMAIN sockets : TransportOpen(s)
    \/ \E s \in DOMAIN sockets : TransportFailed(s)
    \/ \E s \in DOMAIN sockets : \E code \in {CLOSE_NORMAL} \cup OtherCodes :
           TransportClosed(s, code)
    \/ \E t \in DOMAIN timers : FireTimer(t)

Next == LinkNext

Spec == Init /\ [][Next]_vars

\* The event loop runs every callback that is due: a pending effect runs, and
\* a pending timer fires unless it is cleared.  Nothing is assumed of the user
\* or of the transport.
Fairness ==
    /\ WF_vars(RunEffect)
    /\ WF_vars(\E t \in DOMAIN timers : FireTimer(t))

FairSpec == Spec /\ Fairness

\* The controls together with the link; the link is followed through
\* MaxSendFailures failed attempts of a run.
InSendScope == failures <= MaxSendFailures

SendNext ==
    \/ ControlNext
    \/ LinkNext /\ InSendScope'

SpecSend == Init /\ [][SendNext]_vars

\* The link left to itself on a transport that fails every connection
\* attempt: the user does nothing after the start, no handshake succeeds.
\* The app starts on the stored endpoints of the link and on the plain and
\* tunnel addresses, with and without a port.
InitFailing ==
    Start(StoredInputs
              \cup {h \o p : h \in PlainHosts \cup TunnelHosts, p \in PortSuffixes})

FailingNext ==
    \/ LoadSavedIP
    \/ RunEffect
    \/ \E s \in DOMAIN sockets : TransportFailed(s)
    \/ \E t \in DOMAIN timers : FireTimer(t)

\* the storage answers, pending effects and timers run, and a socket that is
\* connecting gets its error and close events
SpecFailing ==
    /\ InitFailing
    /\ [][FailingNext]_vars
    /\ WF_vars(LoadSavedIP)
    /\ WF_vars(RunEffect)
    /\ WF_vars(\E t \in DOMAIN timers : FireTimer(t))
    /\ WF_vars(\E s \in DOMAIN sockets : TransportFailed(s))

(***************************************************************************)
(* The camera overlay (DraggableResizableCamera) and its storage.          *)
(***************************************************************************)
\* gesture.dx and gesture.dy, the movement of the touch since it began
Delta(dx, dy) == [dx |-> dx, dy |-> dy]

Deltas ==
    {Delta(0, 0), Delta(Pt(1000), Pt(1000)), Delta(-Pt(1000), -Pt(1000)),
     Delta(Pt(150), -Pt(300))}

\* the component is rendered: {hasLoadedCameraSettings && piIP && ...}, line 594
Mounted == hasLoadedCameraSettings /\ piIP # <<>>

\* a step of the camera overlay or of its storage leaves the link and the
\* controls alone; history: d is the movement the step was given, and prev
\* and prevD are the op and the movement of the step before it
CameraStep(op, d) ==
    /\ ~effectPending
    /\ last' = [op |-> op, rs |-> ReadyState(Link), res |-> "none", ip |-> <<>>,
                stale |-> FALSE, preRef |-> reconnectTimeoutRef,
                preAtt |-> connectionAttempts, d |-> d, prev |-> last.op,
                prevD |-> IF "d" \in DOMAIN last THEN last.d ELSE Delta(0, 0)]
    /\ sent' = <<>>
    /\ UNCHANGED <<linkVars, ctlVars, runVars>>

\* loadCameraSettings, lines 86-108; the overlay mounts with what was loaded
LoadCameraSettings ==
    /\ ~hasLoadedCameraSettings
    /\ CameraStep("loadCamera", Delta(0, 0))
    /\ cameraPosition' = IF storedPosition # <<>> THEN storedPosition[1] ELSE cameraPosition
    /\ cameraSize' = IF storedSize # <<>> THEN storedSize[1] ELSE cameraSize
    /\ hasLoadedCameraSettings' = TRUE
    /\ pan' = cameraPosition'
    /\ initialSize' = cameraSize'
    /\ wrote' = {}
    /\ UNCHANGED <<isFullscreen, isResizing, gesture, storedPosition, storedSize>>

\* dragPanResponder.onPanResponderGrant, lines 905-911
DragGrant ==
    /\ Mounted /\ ~isFullscreen
    /\ gesture = "none"
    /\ ~isResizing
    /\ CameraStep("dragGrant", Delta(0, 0))
    /\ gesture' = "drag"
    /\ pan' = cameraPosition
    /\ wrote' = {}
    /\ UNCHANGED <<cameraPosition, cameraSize, hasLoadedCameraSettings, isFullscreen,
                   isResizing, initialSize, storedPosition, storedSize>>

\* dragPanResponder.onPanResponderMove, lines 912-915
DragMove(d) ==
    /\ gesture = "drag"
    /\ CameraStep("dragMove", d)
    /\ pan' = Position(cameraPosition.x + d.dx, cameraPosition.y + d.dy)
    /\ wrote' = {}
    /\ UNCHANGED <<cameraPosition, cameraSize, hasLoadedCameraSettings, isFullscreen,
                   isResizing, initialSize, gesture, storedPosition, storedSize>>

\* a release that clamps at the far edges only
dragEnd_NoFloor(position, size, d) ==
    Position(Min(ViewportWidth - size.width, position.x + d.dx),
             Min(ViewportHeight - size.height, position.y + d.dy))

\* newX and newY of onPanResponderRelease, lines 918-919
dragEnd(position, size, d) ==
    Position(Max(0, Min(ViewportWidth - size.width, position.x + d.dx)),
             Max(0, Min(ViewportHeight - size.height, position.y + d.dy)))

\* dragPanResponder.onPanResponderRelease, lines 916-922, with
\* onPositionChange, lines 598-601, and saveCameraPosition, lines 110-117
DragRelease(d) ==
    /\ gesture = "drag"
    /\ CameraStep("dragRelease", d)
    /\ cameraPosition' = dragEnd(cameraPosition, cameraSize, d)
    /\ pan' = cameraPosition'
    /\ storedPosition' = <<cameraPosition'>>
    /\ wrote' = {"camera_position"}
    /\ gesture' = "none"
    /\ UNCHANGED <<cameraSize, hasLoadedCameraSettings, isFullscreen, isResizing,
                   initialSize, storedSize>>

\* resizePanResponder.onPanResponderGrant, lines 933-937
ResizeGrant ==
    /\ Mounted /\ ~isFullscreen
    /\ gesture = "none"
    /\ CameraStep("resizeGrant", Delta(0, 0))
    /\ gesture' = "resize"
    /\ isResizing' = TRUE
    /\ initialSize' = cameraSize
    /\ wrote' = {}
    /\ UNCHANGED <<cameraPosition, cameraSize, hasLoadedCameraSettings, isFullscreen,
                   pan, storedPosition, storedSize>>

\* a resize without the minimum size
resized_NoMinimum(initial, d) ==
    Size(Min(ViewportWidth - Pt(40), initial.width + d.dx),
         Min(ViewportHeight - Pt(100), initial.height + d.dy))

\* a resize that starts from the size of the last render
ResizeMove_Compounds(d) ==
    /\ gesture = "resize"
    /\ CameraStep("resizeMove", d)
    /\ cameraSize' = Size(Max(Pt(150), Min(ViewportWidth - Pt(40), cameraSize.width + d.dx)),
                          Max(Pt(100), Min(ViewportHeight - Pt(100), cameraSize.height + d.dy)))
    /\ storedSize' = <<cameraSize'>>
    /\ wrote' = {"camera_size"}
    /\ UNCHANGED <<cameraPosition, hasLoadedCameraSettings, isFullscreen, isResizing,
                   initialSize, pan, gesture, storedPosition>>

\* newWidth and newHeight of onPanResponderMove, lines 939-940
resized(initial, d) ==
    Size(Max(Pt(150), Min(ViewportWidth - Pt(40), initial.width + d.dx)),
         Max(Pt(100), Min(ViewportHeight - Pt(100), initial.height + d.dy)))

\* resizePanResponder.onPanResponderMove, lines 938-942, with onSizeChange,
\* lines 603-606, and saveCameraSize, lines 119-126
ResizeMove(d) ==
    /\ gesture = "resize"
    /\ CameraStep("resizeMove", d)
    /\ cameraSize' = resized(initialSize, d)
    /\ storedSize' = <<cameraSize'>>
    /\ wrote' = {"camera_size"}
    /\ UNCHANGED <<cameraPosition, hasLoadedCameraSettings, isFullscreen, isResizing,
                   initialSize, pan, gesture, storedPosition>>

\* resizePanResponder.onPanResponderRelease, lines 943-946
ResizeRelease ==
    /\ gesture = "resize"
    /\ CameraStep("resizeRelease", Delta(0, 0))
    /\ isResizing' = FALSE
    /\ gesture' = "none"
    /\ wrote' = {}
    /\ UNCHANGED <<cameraPosition, cameraSize, hasLoadedCameraSettings, isFullscreen,
                   initialSize, pan, storedPosition, storedSize>>

\* a fullscreen toggle that puts the overlay back where it starts
HandleFullscreen_Resets ==
    /\ Mounted
    /\ gesture = "none"
    /\ CameraStep("fullscreen", Delta(0, 0))
    /\ isFullscreen' = ~isFullscreen
    /\ cameraPosition' = DefaultPosition
    /\ pan' = DefaultPosition
    /\ wrote' = {}
    /\ UNCHANGED <<cameraSize, hasLoadedCameraSettings, isResizing, initialSize,
                   gesture, storedPosition, storedSize>>

\* handleFullscreen, lines 949-951, with setIsFullscreen
HandleFullscreen ==
    /\ Mounted
    /\ gesture = "none"
    /\ CameraStep("fullscreen", Delta(0, 0))
    /\ isFullscreen' = ~isFullscreen
    /\ wrote' = {}
    /\ UNCHANGED <<cameraPosition, cameraSize, hasLoadedCameraSettings, isResizing,
                   initialSize, pan, gesture, storedPosition, storedSize>>

\* The camera overlay of an app that starts with or without a stored rect.
InitCamera == Boot({EpA}, StoredPositions, StoredSizes)

OverlayNext ==
    \/ LoadSavedIP
    \/ RunEffect
    \/ LoadCameraSettings
    \/ DragGrant
    \/ \E d \in Deltas : DragMove(d)
    \/ \E d \in Deltas : DragRelease(d)
    \/ ResizeGrant
    \/ \E d \in Deltas : ResizeMove(d)
    \/ ResizeRelease
    \/ HandleFullscreen

SpecCamera == InitCamera /\ [][OverlayNext]_vars

\* The link with the messages of the server.
InboundNext ==
    \/ LinkNext
    \/ \E s \in DOMAIN sockets : \E data \in Payloads : TransportMessage(s, data)

SpecInbound == Init /\ [][InboundNext]_vars

\* The whole control panel (sliders, honk, gear, lights, auto) on a link to
\* one endpoint that the user does not change.
InitPanel == Start({EpA})

PanelNext ==
    \/ \E v \in AxisSamples : HandleThrottleChange(v)
    \/ \E v \in BrakeInputs : HandleBrakeChange(v)
    \/ \E v \in AxisSamples : HandleSteeringChange(v)
    \/ HandleHonkPress
    \/ HandleHonkRelease
    \/ \E g \in GearInputs : SetGear(g)
    \/ ToggleLights
    \/ ToggleAuto
    \/ LoadSavedIP
    \/ RunEffect
    \/ \E s \in DOMAIN sockets : TransportOpen(s)
    \/ (\E s \in DOMAIN sockets : TransportFailed(s)) /\ InSendScope'
    \/ \E t \in DOMAIN timers : FireTimer(t)

SpecPanel == InitPanel /\ [][PanelNext]_vars

\* The settings buttons and the link, with the scheduling of React and of the
\* timers: a pending effect runs and a due timer fires.  The transport and
\* the user are under no obligation.
SyncNext ==
    \/ \E g \in GearInputs : SetGear(g)
    \/ ToggleLights
    \/ ToggleAuto
    \/ LoadSavedIP
    \/ RunEffect
    \/ \E s \in DOMAIN sockets : TransportOpen(s)
    \/ (\E s \in DOMAIN sockets : TransportFailed(s)) /\ InSendScope'
    \/ \E t \in DOMAIN timers : FireTimer(t)

SpecSync ==
    /\ InitPanel
    /\ [][SyncNext]_vars
    /\ WF_vars(LoadSavedIP)
    /\ WF_vars(RunEffect)
    /\ WF_vars(\E t \in DOMAIN timers : FireTimer(t))

\* The app started on each stored endpoint string and left alone by the user:
\* the URLs it derives and the sockets it opens.
InitResolve == Start(ResolveInputs)

ResolveNext ==
    \/ LoadSavedIP
    \/ RunEffect
    \/ \E s \in DOMAIN sockets : TransportOpen(s)
    \/ \E s \in DOMAIN sockets : TransportFailed(s)
    \/ \E t \in DOMAIN timers : FireTimer(t)

SpecResolve == InitResolve /\ [][ResolveNext]_vars

(***************************************************************************)
(* The claims.                                                             *)
(***************************************************************************)
Live == {s \in DOMAIN sockets : sockets[s].readyState \in {"CONNECTING", "OPEN"}}

CloseEvent == last.op \in {"failed", "closed"}

TimerFired == last.op \in {"fireReconnect", "fireDelayed"}

\* the step started a connection attempt: connectToServer went past its checks
AttemptStarted == last.res \in {"created", "threw"}

\* C1: once the endpoint has been reconfigured, every socket that is created
\* targets the new endpoint.  handleSaveSettings closes the socket it finds, so
\* a socket that is connecting or open was created after the last
\* reconfiguration, and the claim is that it targets the URL of the current
\* piIP (stated for a piIP whose socket can be constructed).
C1_SocketsTargetCurrentEndpoint ==
    CanConstruct(ControlUrl(piIP)) =>
        \A s \in Live : sockets[s].url = ControlUrl(piIP)

\* C3: an intentional close leaves no reconnect timer and no handle, does not
\* increment the attempt counter, and is non-retrying: the close event that is
\* delivered later for the socket it closed arms no reconnect timer.
C3_IntentionalCloseDoesNotRetry ==
    /\ disconnectFromServer(Link).reconnectTimeoutRef = 0
    /\ disconnectFromServer(Link).wsRef = 0
    /\ disconnectFromServer(Link).connectionAttempts <= connectionAttempts
    /\ effectCleanup(Link).reconnectTimeoutRef = 0
    /\ effectCleanup(Link).wsRef = 0
    /\ effectCleanup(Link).connectionAttempts <= connectionAttempts
    /\ (CloseEvent /\ last.rs = "CLOSING") => reconnectTimeoutRef = last.preRef

\* C6: a timer that was armed before a close, a configure or a teardown never
\* fires a connection attempt after it: the timer callback that runs was armed
\* after the last disconnectFromServer and the last effect cleanup.
C6_NoStaleTimerFires == (TimerFired /\ AttemptStarted) => ~last.stale

\* C2: at most one reconnect timer is pending, it is the one that
\* reconnectTimeoutRef holds, and a close event that finds the timer armed
\* leaves it as the only one.
C2_AtMostOneReconnectTimer ==
    /\ Cardinality(Reconnects) <= 1
    /\ Reconnects \subseteq {reconnectTimeoutRef}
    /\ (CloseEvent /\ last.preRef # 0) =>
           (reconnectTimeoutRef = last.preRef /\ Cardinality(Reconnects) = 1)

\* a socket that was connecting or open fails while the reconnect timer is armed
C2_Witness == CloseEvent /\ last.preRef # 0 /\ last.rs \in {"CONNECTING", "OPEN"}

FailedAfter5 == "Failed after 5 attempts. Check settings and restart server."

\* the exhausted state: the budget is spent, nothing is pending that could
\* start a connection attempt, and the error is shown (a Save of an empty
\* address replaces the text)
Exhausted ==
    /\ connectionAttempts >= 5
    /\ DOMAIN timers = {}
    /\ Live = {}
    /\ ~effectPending
    /\ ~AttemptStarted
    /\ connectionError = FailedAfter5 \/ last.op = "saveEmpty"

\* C4 as stated: after 5 consecutive transport failures with no successful
\* open and no configure in between the link is exhausted, whether the run
\* began with a fresh open or with the drop of an Open link.
C4_FiveFailuresExhaust == failures >= 5 => Exhausted

\* C4 as amended: the link is exhausted after 5 failed connection attempts,
\* which is the 5th failure of a run that begins with a fresh open and the
\* 6th failure of a run that begins with the drop of an Open link.
C4_FiveFailedAttemptsExhaust ==
    failures >= (IF dropped THEN 6 ELSE 5) => Exhausted

\* an Open link dropped and its five reconnects failed
C4_Witness == dropped /\ failures = 6 /\ connectionError = FailedAfter5

\* C7: right after onopen the attempt counter is 0 and no reconnect timer is
\* armed.
C7_OpenResets ==
    last.op = "open" =>
        (connectionAttempts = 0 /\ reconnectTimeoutRef = 0 /\ Reconnects = {})

\* a socket opened while a reconnect timer was armed and the counter was not 0
C7_Witness == last.op = "open" /\ last.preRef # 0 /\ last.preAtt > 0

SaveFromExhausted ==
    /\ last.op = "save"
    /\ last.preAtt >= 5
    /\ last.preRef = 0
    /\ last.rs \in {"CLOSED", "NONE"}

\* C5: a configure from the exhausted state resets the attempt counter to 0,
\* and a connection attempt is eventually started; it is the first of a full
\* budget (the counter is 1 when it starts).
C5_ConfigureResumes ==
    /\ [](SaveFromExhausted => connectionAttempts = 0)
    /\ SaveFromExhausted ~> (AttemptStarted /\ connectionAttempts = 1)

\* a Save of the same endpoint has found the link exhausted: the counter is
\* 0 again, no effect re-runs, and the delayed connect is pending
C5_Witness ==
    /\ SaveFromExhausted
    /\ connectionAttempts = 0
    /\ ~effectPending
    /\ Delayed # {}

SendOps == {"throttle", "brake", "steering", "honkPress", "honkRelease"}

\* C9: a handler that calls sendCommand while the socket held in wsRef is
\* absent, connecting, closing or closed transmits nothing and leaves the
\* link as it was; and no other step transmits, so nothing that was not sent
\* then goes out when the link opens later.
C9_SendOnlyWhenOpen ==
    [][/\ (last'.op \in SendOps /\ ReadyState(Link) # "OPEN") =>
              (sent' = <<>> /\ UNCHANGED linkVars)
       /\ last'.op \notin SendOps => sent' = <<>>]_vars

\* a control was moved after the link dropped, while the reconnect is pending
C9_Witness ==
    /\ last.op \in SendOps
    /\ last.rs = "CLOSED"
    /\ failures = 1
    /\ reconnectTimeoutRef # 0
    /\ sent = <<>>

\* the call of connectToServer in the last step found its endpoint empty
\* after trimming, or could not construct the socket
OpenFailed == last.res \in {"noip", "threw"}

AllClosed == \A s \in DOMAIN sockets : sockets[s].readyState = "CLOSED"

\* nothing is pending: no effect, no timer, no socket that can deliver an event
Quiet == ~effectPending /\ DOMAIN timers = {} /\ AllClosed

\* C10: a call of connectToServer that finds its endpoint empty after
\* trimming, or cannot construct the socket, shows an error, creates no
\* socket and arms no timer; made on an idle link (every socket closed, no
\* timer but the one whose callback makes the call) it leaves nothing
\* pending, and from there only a Save takes a step.
C10_FailedOpenStaysIdle ==
    [][/\ OpenFailed' =>
            /\ connectionError' \in {"Please set Raspberry Pi IP address in settings",
                                     "Failed to create connection"}
            /\ isConnected' => isConnected
            /\ Live' \subseteq Live
            /\ wsRef' \in {0, wsRef}
            /\ reconnectTimeoutRef' \in {0, reconnectTimeoutRef}
            /\ \A t \in DOMAIN timers' :
                   /\ t \in DOMAIN timers
                   /\ [timers'[t] EXCEPT !.stale = FALSE] = [timers[t] EXCEPT !.stale = FALSE]
            /\ Cardinality(DOMAIN timers') <=
                   Cardinality(DOMAIN timers) - (IF TimerFired' THEN 1 ELSE 0)
            /\ (AllClosed /\ Cardinality(DOMAIN timers) <= (IF TimerFired' THEN 1 ELSE 0))
                    => Quiet'
       /\ (Quiet /\ loaded) => last'.op \in {"save", "saveEmpty"}]_vars

\* from no endpoint at all, an endpoint with a blank in it was saved: the
\* connection effect could not construct its socket, and the delayed connect,
\* which still has the empty endpoint, has failed too; nothing is pending
C10_Witness ==
    /\ last.op = "fireDelayed"
    /\ last.res = "noip"
    /\ piIP = EpBad
    /\ connectionAttempts = 1
    /\ connectionError = "Please set Raspberry Pi IP address in settings"
    /\ Quiet

(***************************************************************************)
(* The endpoint resolver: the URLs derived from piIP.                      *)
(***************************************************************************)
SchemeWs == <<"w", "s", ":", "/", "/">>

SchemeWss == <<"w", "s", "s", ":", "/", "/">>

SchemeHttp == <<"h", "t", "t", "p", ":", "/", "/">>

SchemeHttps == <<"h", "t", "t", "p", "s", ":", "/", "/">>

\* the part of a URL after its "://"
AfterScheme(url) ==
    LET i == CHOOSE j \in 1..Len(url) :
                 /\ SubSeq(url, j, j + 2) = <<":", "/", "/">>
                 /\ \A k \in 1..(j - 1) : SubSeq(url, k, k + 2) # <<":", "/", "/">>
    IN  Drop(url, i + 2)

\* host[:port] of the control URL and of the media URL
ControlAuthority(ip) == AfterScheme(ControlUrl(ip))

MediaAuthority(ip) ==
    LET a == AfterScheme(CameraUrl(ip)) IN SubSeq(a, 1, Len(a) - Len(CameraPath))

\* the sockets of the link were all made for the control URL of piIP
SocketsUse(url) == \A s \in DOMAIN sockets : sockets[s].url = url

Opened == loaded /\ ~effectPending /\ DOMAIN sockets # {}

\* C11: the plain host 192.168.1.100 without a port gets the control URL
\* ws://192.168.1.100:8765 and the media URL http://192.168.1.100:8080/camera.
C11_DefaultPorts ==
    (loaded /\ piIP = HostLan) =>
        /\ ControlUrl(piIP) = <<"w", "s", ":", "/", "/", "1", "9", "2", ".", "1", "6", "8", ".", "1", ".", "1", "0", "0", ":", "8", "7", "6", "5">>
        /\ SocketsUse(<<"w", "s", ":", "/", "/", "1", "9", "2", ".", "1", "6", "8", ".", "1", ".", "1", "0", "0", ":", "8", "7", "6", "5">>)
        /\ CameraUrl(piIP) = <<"h", "t", "t", "p", ":", "/", "/", "1", "9", "2", ".", "1", "6", "8", ".", "1", ".", "1", "0", "0", ":", "8", "0", "8", "0", "/", "c", "a", "m", "e", "r", "a">>

\* C12: the control URL and the media URL of every endpoint have the same
\* host, and the control URL is wss:// exactly when the media URL is https://.
C12_SameHostSameSecurity ==
    loaded =>
        /\ StripPort(ControlAuthority(piIP)) = StripPort(MediaAuthority(piIP))
        /\ StartsWith(ControlUrl(piIP), SchemeWss) <=> StartsWith(CameraUrl(piIP), SchemeHttps)
        /\ StartsWith(ControlUrl(piIP), SchemeWss) \/ StartsWith(ControlUrl(piIP), SchemeWs)
        /\ StartsWith(CameraUrl(piIP), SchemeHttps) \/ StartsWith(CameraUrl(piIP), SchemeHttp)
        /\ IsNgrok(CleanIP(piIP)) => StartsWith(CameraUrl(piIP), SchemeHttps)
        /\ SocketsUse(ControlUrl(piIP))

\* a socket to a tunnel host, given with a port behind a scheme
C12_Witness ==
    /\ Opened
    /\ piIP = SchemeHttp \o HostTunnelDev \o <<":", "9">>
    /\ \E s \in DOMAIN sockets : StartsWith(sockets[s].url, SchemeWss)

\* C13: a tunnel host, with or without a trailing :port, gets wss://{host}
\* and https://{host}/camera; so do abc123.ngrok-free.app and
\* abc123.ngrok-free.app:8765.
C13_TunnelUrls ==
    /\ \A h \in TunnelHosts : \A p \in PortSuffixes :
           (loaded /\ piIP = h \o p) =>
               /\ ControlUrl(piIP) = SchemeWss \o h
               /\ CameraUrl(piIP) = SchemeHttps \o h \o CameraPath
               /\ SocketsUse(SchemeWss \o h)
    /\ (loaded /\ piIP \in {HostTunnelApp, HostTunnelApp \o <<":", "8", "7", "6", "5">>}) =>
           /\ ControlUrl(piIP) = <<"w", "s", "s", ":", "/", "/", "a", "b", "c", "1", "2", "3", ".", "n", "g", "r", "o", "k", "-", "f", "r", "e", "e", ".", "a", "p", "p">>
           /\ CameraUrl(piIP) = <<"h", "t", "t", "p", "s", ":", "/", "/", "a", "b", "c", "1", "2", "3", ".", "n", "g", "r", "o", "k", "-", "f", "r", "e", "e", ".", "a", "p", "p", "/", "c", "a", "m", "e", "r", "a">>

\* the socket opened for abc123.ngrok-free.app:8765
C13_Witness ==
    /\ Opened
    /\ piIP = HostTunnelApp \o <<":", "8", "7", "6", "5">>
    /\ \E s \in DOMAIN sockets : sockets[s].url = SchemeWss \o HostTunnelApp

C15_ExplicitPortVerbatim ==
    \A h \in PlainHosts \cup {HostV6} : \A p \in PortSuffixes :
        (loaded /\ piIP = h \o p) =>
            IF Includes(piIP, <<":">>)
            THEN /\ ControlUrl(piIP) = SchemeWs \o piIP
                 /\ CameraUrl(piIP) = SchemeHttp \o piIP \o CameraPath
                 /\ SocketsUse(SchemeWs \o piIP)
            ELSE /\ ControlUrl(piIP) = SchemeWs \o piIP \o <<":">> \o DefaultControlPort
                 /\ SocketsUse(SchemeWs \o piIP \o <<":">> \o DefaultControlPort)

\* the socket opened for h:9
C15_Witness ==
    /\ Opened
    /\ piIP = HostPlain \o <<":", "9">>
    /\ \E s \in DOMAIN sockets : sockets[s].url = <<"w", "s", ":", "/", "/", "h", ":", "9">>

\* C16: an endpoint with an unmatched '[' or ']' is refused, with an error
\* and without a socket; a well-formed bracketed IPv6 literal keeps its
\* brackets in the control URL.
C16_MalformedBracketsRejected ==
    /\ (loaded /\ ~effectPending /\ MalformedBrackets(piIP)) =>
           /\ DOMAIN sockets = {}
           /\ connectionError # ""
    /\ (loaded /\ piIP \in {HostV6 \o p : p \in PortSuffixes}) =>
           /\ ControlUrl(piIP) = SchemeWs \o piIP
           /\ SocketsUse(SchemeWs \o piIP)

\* the last step was the handler op, run while the socket in wsRef was OPEN
SentOpen(op) == last.op = op /\ last.rs = "OPEN"

\* the two messages of a signed axis: the positive half first
SplitAs(v, positive, negative) ==
    /\ Len(sent) = 2
    /\ sent[1].type = positive
    /\ sent[2].type = negative
    /\ sent[1].value = Max(v, 0)
    /\ sent[2].value = Max(-v, 0)
    /\ sent[1].value = 0 \/ sent[2].value = 0
    /\ sent[1].value - sent[2].value = v
    /\ v = 0 => (sent[1].value = 0 /\ sent[2].value = 0)

\* C17: a throttle update of value v sent while the link is Open emits
\* throttle_forward = max(v, 0) and throttle_backward = max(-v, 0), a
\* steering update emits steering_right = max(v, 0) and steering_left =
\* max(-v, 0); at most one half is not 0, their difference is v, and v = 0
\* emits 0 on both.
C17_AxisSplit ==
    /\ SentOpen("throttle") =>
           /\ throttle \in -100..100
           /\ SplitAs(throttle, "throttle_forward", "throttle_backward")
    /\ SentOpen("steering") =>
           /\ steering \in -100..100
           /\ SplitAs(steering, "steering_right", "steering_left")

\* the throttle was pulled back to -42 on an open link
C17_Witness ==
    /\ SentOpen("throttle")
    /\ throttle = -42
    /\ sent[1].value = 0
    /\ sent[2].value = 42

BundleFields == {"type", "value", "gear", "lights", "auto"}

\* C18: every message of an axis or honk handler has the fields type, value,
\* gear, lights and auto, and its gear, lights and auto are the settings of
\* the component when the handler sent it.
C18_MessagesCarrySettings ==
    last.op \in SendOps =>
        \A i \in 1..Len(sent) :
            /\ DOMAIN sent[i] = BundleFields
            /\ sent[i].gear = gear
            /\ sent[i].lights = lightsOn
            /\ sent[i].auto = autoMode

\* the horn was pressed in gear 3 with the lights on
C18_Witness ==
    /\ SentOpen("honkPress")
    /\ Len(sent) = 1
    /\ gear = 3 /\ sent[1].gear = 3
    /\ lightsOn /\ sent[1].lights
    /\ ~autoMode /\ ~sent[1].auto

Settings == <<gear, lightsOn, autoMode>>

\* C19: a step that changes gear, lights or auto while the socket in wsRef
\* is OPEN sends exactly one message, of type settings, that carries the new
\* gear, lights and auto; no axis or honk message is needed for it.
C19_SettingsChangeIsSent ==
    [][(Settings' # Settings /\ ReadyState(Link) = "OPEN") =>
           sent' = <<SettingsMessage(gear', lightsOn', autoMode')>>]_vars

\* gear 2 was chosen on an open link before any slider or the horn was touched
C19_Witness ==
    /\ SentOpen("gear")
    /\ gear = 2
    /\ throttle = 0 /\ brake = 0 /\ steering = 0 /\ ~honkPressed
    /\ sent = <<SettingsMessage(2, lightsOn, autoMode)>>

NotObjectText == {"nonJson", "parseError"}

\* C20: a message that is not the text of a well-formed JSON object is
\* dropped: the step of onmessage leaves the sockets, wsRef, isConnected,
\* connectionAttempts and the reconnect timer as they were.
C20_BadMessageIsDropped ==
    [][(last'.op = "message" /\ last'.res \in NotObjectText) =>
           UNCHANGED <<sockets, wsRef, isConnected, connectionError,
                       connectionAttempts, reconnectTimeoutRef, timers>>]_vars

\* text that starts with '{' and does not parse arrived on the open link
C20_Witness ==
    /\ last.op = "message"
    /\ last.res = "parseError"
    /\ isConnected
    /\ wsRef # 0
    /\ sockets[wsRef].readyState = "OPEN"

\* no touch is held on the mounted overlay
AtRest == Mounted /\ gesture = "none"

SizeInRange(size) ==
    /\ Pt(150) <= size.width /\ size.width <= ViewportWidth - Pt(40)
    /\ Pt(100) <= size.height /\ size.height <= ViewportHeight - Pt(100)

Inside(position, size) ==
    /\ 0 <= position.x /\ position.x <= ViewportWidth - size.width
    /\ 0 <= position.y /\ position.y <= ViewportHeight - size.height

\* C21: after any sequence of drags, resizes and fullscreen toggles from a
\* rect that is in bounds, 0 <= x <= viewportWidth - width, 0 <= y <=
\* viewportHeight - height, 150 <= width <= viewportWidth - 40 and
\* 100 <= height <= viewportHeight - 100.
C21_OverlayInBounds ==
    AtRest =>
        /\ SizeInRange(cameraSize)
        /\ Inside(cameraPosition, cameraSize)

Clamp(v, lo, hi) == IF v < lo THEN lo ELSE IF v > hi THEN hi ELSE v

DragEnded == last.op = "dragRelease"

\* C22: the end of a drag puts the corner at the start position plus the
\* movement, clamped into [0, viewport - size] on each axis by itself; a
\* 300x200 overlay dragged by (+1000, +1000) in the 400x800 viewport ends at
\* (100, 600), and no coordinate is negative.
C22_DragClamps ==
    [][DragEnded' =>
          /\ cameraPosition'.x =
                 Clamp(cameraPosition.x + last'.d.dx, 0, ViewportWidth - cameraSize.width)
          /\ cameraPosition'.y =
                 Clamp(cameraPosition.y + last'.d.dy, 0, ViewportHeight - cameraSize.height)
          /\ cameraPosition'.x >= 0 /\ cameraPosition'.y >= 0
          /\ (cameraSize = Size(Pt(300), Pt(200)) /\ last'.d = Delta(Pt(1000), Pt(1000))) =>
                 cameraPosition' = Position(Pt(100), Pt(600))]_vars

\* the 300x200 overlay was dragged by (+1000, +1000)
C22_Witness ==
    /\ DragEnded
    /\ last.d = Delta(Pt(1000), Pt(1000))
    /\ cameraSize = Size(Pt(300), Pt(200))
    /\ cameraPosition = Position(Pt(100), Pt(600))

Resized == last.op = "resizeMove"

\* C23: a resize sets the width to the width at the start of the gesture
\* plus dx clamped into [150, viewportWidth - 40], and the height to the
\* height at the start plus dy clamped into [100, viewportHeight - 100], each
\* by itself; a movement that would go below both minimums gives exactly
\* (150, 100).
C23_ResizeClamps ==
    [][Resized' =>
          /\ cameraSize'.width =
                 Clamp(initialSize.width + last'.d.dx, Pt(150), ViewportWidth - Pt(40))
          /\ cameraSize'.height =
                 Clamp(initialSize.height + last'.d.dy, Pt(100), ViewportHeight - Pt(100))
          /\ (/\ initialSize.width + last'.d.dx < Pt(150)
              /\ initialSize.height + last'.d.dy < Pt(100)) =>
                 cameraSize' = Size(Pt(150), Pt(100))]_vars

\* the overlay was resized by (-1000, -1000)
C23_Witness ==
    /\ Resized
    /\ last.d = Delta(-Pt(1000), -Pt(1000))
    /\ cameraSize = Size(Pt(150), Pt(100))

MoveOps == {"dragMove", "resizeMove"}

\* C24: a move event of a drag or of a resize writes nothing to storage;
\* the end of a drag writes the position and the end of a resize writes the
\* size, and storage then holds the rect of the overlay.
C24_OnlyGestureEndPersists ==
    /\ last.op \in MoveOps => wrote = {}
    /\ DragEnded => (wrote = {"camera_position"} /\ storedPosition = <<cameraPosition>>)
    /\ last.op = "resizeRelease" => (wrote = {"camera_size"} /\ storedSize = <<cameraSize>>)

\* everything of the overlay and of its storage but the fullscreen flag
OverlayRest ==
    <<cameraPosition, cameraSize, hasLoadedCameraSettings, isResizing, initialSize,
      pan, gesture, storedPosition, storedSize>>

\* C25: toggling fullscreen flips isFullscreen and nothing else: position,
\* size and the stored rect stay, nothing is written, and so a second toggle
\* is back in the state before the first.
C25_FullscreenOnlyFlips ==
    [][last'.op = "fullscreen" =>
          /\ isFullscreen' = ~isFullscreen
          /\ wrote' = {}
          /\ UNCHANGED <<OverlayRest, linkVars, ctlVars>>]_vars

\* fullscreen was left again, with the rect of an earlier run in storage
C25_Witness ==
    /\ last.op = "fullscreen"
    /\ ~isFullscreen
    /\ storedPosition = <<cameraPosition>>
    /\ storedSize = <<cameraSize>>
    /\ cameraPosition # DefaultPosition

\* the app gave up: the close event of a failed attempt armed no timer
GaveUp == connectionError = FailedAfter5

\* C26: after the drop of an open link the app gives up only when 10
\* reconnects have failed, that is at the 11th failure of the run.
C26_TenReconnects == (dropped /\ GaveUp) => failures >= 1 + 10

\* C27: the ngrok TCP address 0.tcp.ngrok.io:12345 only gets the ws://
\* scheme: the control URL is ws://0.tcp.ngrok.io:12345, and that is the URL
\* of every socket opened for it.
C27_TcpTunnelKeepsPort ==
    (loaded /\ piIP = EpTcpTunnel) =>
        /\ ControlUrl(piIP) = SchemeWs \o EpTcpTunnel
        /\ SocketsUse(SchemeWs \o EpTcpTunnel)

\* C28: at most one socket is connecting or open, it is the socket that
\* wsRef holds, and a step creates a socket only if the socket that wsRef
\* held was absent, closing or closed.
C28_OneLiveSocket ==
    /\ Cardinality(Live) <= 1
    /\ Live \subseteq {wsRef}
    /\ last.res = "created" => last.rs \in {"NONE", "CLOSING", "CLOSED"}

\* a timer fired while the socket in wsRef was connecting, and no socket was made
C28_Witness ==
    /\ TimerFired
    /\ last.rs = "CONNECTING"
    /\ last.res = "busy"
    /\ Live = {wsRef}

Connecting == {s \in DOMAIN sockets : sockets[s].readyState = "CONNECTING"}

\* the transport failed since the last open and the last configure, the
\* endpoint is not empty, the link is not open and the budget is not spent
Recovering ==
    /\ piIP # <<>>
    /\ failures > 0
    /\ ReadyState(Link) # "OPEN"
    /\ connectionAttempts < 5

\* C29: after a transport failure, while the endpoint is not empty, the link
\* is not open and the attempt counter is below 5, a socket is connecting or
\* a reconnect timer is pending.
C29_RecoveryInProgress == Recovering => (Connecting # {} \/ Reconnects # {})

\* the link has just failed for the third time: the timer is armed and no
\* socket is connecting
C29_Witness ==
    /\ Recovering
    /\ last.op = "failed"
    /\ failures = 3
    /\ Connecting = {}
    /\ Reconnects = {reconnectTimeoutRef}

\* C30: when every connection attempt fails and the user does nothing, a
\* link that started connecting ends exhausted, with no timer pending and no
\* socket connecting, and it never makes more than 5 connection attempts.
C30_RetryLoopTerminates ==
    /\ [](connectionAttempts <= 5)
    /\ (Connecting # {}) ~> (Exhausted /\ DOMAIN timers = {} /\ Connecting = {})

\* the fifth attempt failed and the app gave up
C30_Witness ==
    /\ Exhausted
    /\ last.op = "failed"
    /\ failures = 5
    /\ connectionAttempts = 5
    /\ GaveUp

HeldOpen == ReadyState(Link) = "OPEN"

\* the step delivers the close or error event of a socket other than the one
\* wsRef holds: the held socket is OPEN before and after it
StaleCloseEvent == last'.op \in {"closed", "failed"} /\ HeldOpen /\ HeldOpen'

\* C31: isConnected agrees with the link: it is true whenever the socket in
\* wsRef is OPEN and no socket has a close event outstanding, the socket in
\* wsRef exists and is OPEN whenever it is true, and the close or error event
\* of a socket that wsRef no longer holds does not turn it false.
C31_ConnectedFlagAgrees ==
    /\ []((HeldOpen /\ Closing = {}) => isConnected)
    /\ [](isConnected => HeldOpen)
    /\ [][(StaleCloseEvent /\ isConnected) => isConnected']_vars

ScheduledDelays == <<5000, 7000, 9000, 11000>>

\* the step was the failure of a connecting or open socket, and its close
\* event armed a reconnect timer
Scheduled ==
    /\ CloseEvent
    /\ last.rs \in {"CONNECTING", "OPEN"}
    /\ reconnectTimeoutRef # 0
    /\ reconnectTimeoutRef # last.preRef

RECURSIVE Latest(_, _)
Latest(stream, type) ==
    IF stream = <<>> THEN 0
    ELSE IF stream[Len(stream)].type = type THEN stream[Len(stream)].value
    ELSE Latest(SubSeq(stream, 1, Len(stream) - 1), type)

\* both halves of an axis are non-zero at the end of the stream
BothHalves(stream, positive, negative) ==
    Latest(stream, positive) # 0 /\ Latest(stream, negative) # 0

\* the messages of the previous step and of this one are consecutive in the
\* stream of one connection: a handler of the controls leaves wsRef alone, and
\* every step of the link empties sent
Prefixes == {sent \o SubSeq(sent', 1, k) : k \in 0..Len(sent')}

\* C34: after every prefix of the stream of one connection the latest
\* throttle_forward and throttle_backward values are not both non-zero, and
\* neither are the latest steering_right and steering_left values.
C34_NeverBothHalves ==
    [][\A stream \in Prefixes :
           /\ ~BothHalves(stream, "throttle_forward", "throttle_backward")
           /\ ~BothHalves(stream, "steering_right", "steering_left")]_vars

SettingsOps == {"gear", "lights", "auto"}

\* lights or auto was toggled while the socket in wsRef was not OPEN
ChangedWhileClosed == last.op \in {"lights", "auto"} /\ last.rs # "OPEN"

\* the step sent a message that carries the current gear, lights and auto
SentBundle ==
    /\ sent # <<>>
    /\ sent[Len(sent)].gear = gear
    /\ sent[Len(sent)].lights = lightsOn
    /\ sent[Len(sent)].auto = autoMode

\* after a change of the settings while the link was not Open, an open link
\* leads to a message with the current settings without a step of the user
C35_SettingsSentAfterOpen == [](ChangedWhileClosed => [](HeldOpen => <>SentBundle))

\* C35: a change of gear, lights or auto while the socket in wsRef is not OPEN
\* sends nothing, and no step of the link, the open event included, sends
\* anything: the settings reach the server with the next message that an input
\* of the user sends on the open link, which carries the current settings.
C35_SettingsNotBuffered ==
    [][/\ (Settings' # Settings /\ ~HeldOpen) => sent' = <<>>
       /\ last'.op \notin SettingsOps => sent' = <<>>
       /\ \A i \in 1..Len(sent') :
              /\ sent'[i].gear = gear'
              /\ sent'[i].lights = lightsOn'
              /\ sent'[i].auto = autoMode']_vars

\* the link has just opened with settings that were changed before it opened,
\* and the open event sent nothing
C35_Witness ==
    /\ last.op = "open"
    /\ sent = <<>>
    /\ Settings # <<1, FALSE, FALSE>>

\* C36: a Save of an endpoint that is empty after trimming sets the error text
\* and leaves the endpoint, the stored endpoint, the socket in wsRef and every
\* other socket, the reconnect timer, the attempt counter and the connected
\* flag as they were; no timer, and so no delayed connect, is armed.
C36_EmptySaveChangesNothing ==
    [][last'.op = "saveEmpty" =>
           /\ connectionError' = "IP address cannot be empty"
           /\ UNCHANGED <<piIP, storedIP, wsRef, sockets, reconnectTimeoutRef, timers,
                          connectionAttempts, isConnected, effectPending>>]_vars

\* an empty endpoint was saved while a socket was held and an attempt counted
C36_Witness ==
    /\ last.op = "saveEmpty"
    /\ connectionError = "IP address cannot be empty"
    /\ wsRef # 0
    /\ connectionAttempts > 0

\* the error panel with the "Trying:" line is on the screen (line 397)
PanelShown == ~isConnected /\ connectionError # ""

\* C37: the URL of the "Trying:" line for the endpoint piIP is the URL of
\* every socket that connectToServer created for that endpoint.
C37_TryingIsOpened ==
    \A s \in DOMAIN sockets : sockets[s].ip = piIP => sockets[s].url = TryingUrl(piIP)

\* the panel shows the URL of the socket that failed on a tunnel address that
\* was entered with a scheme, a port and a trailing slash
C37_Witness ==
    /\ PanelShown
    /\ last.op = "failed"
    /\ piIP = <<"H", "T", "T", "P", ":", "/", "/">> \o HostTunnelApp \o <<":", "9", "/">>
    /\ \E s \in DOMAIN sockets :
           /\ sockets[s].ip = piIP
           /\ sockets[s].url = <<"w", "s", "s", ":", "/", "/">> \o HostTunnelApp
           /\ sockets[s].url = TryingUrl(piIP)

\* the size that one move with movement d gives to a gesture that began at
\* the size start
SingleMove(start, d) ==
    Size(Clamp(start.width + d.dx, Pt(150), ViewportWidth - Pt(40)),
         Clamp(start.height + d.dy, Pt(100), ViewportHeight - Pt(100)))

\* C38: within one resize gesture the size captured at the grant stays the
\* reference of every move, and a move that follows another move of the
\* gesture gives the size that it would give as the first move of the
\* gesture: the size of the overlay before the move does not enter.
C38_MovesDoNotCompound ==
    [][/\ last'.op = "resizeGrant" => initialSize' = cameraSize
       /\ last'.op = "resizeMove" =>
              /\ initialSize' = initialSize
              /\ cameraSize' = SingleMove(initialSize, last'.d)]_vars

\* after a move by (+1000, +1000) made the overlay (360, 700), the move by
\* (+150, -300) of the same gesture gives the height 100 that it gives from
\* the height at the grant, and not the 400 that it would give from 700
C38_Witness ==
    /\ last.op = "resizeMove"
    /\ last.prev = "resizeMove"
    /\ last.prevD = Delta(Pt(1000), Pt(1000))
    /\ last.d = Delta(Pt(150), -Pt(300))
    /\ initialSize = Size(Pt(300), Pt(200))
    /\ cameraSize = Size(Pt(360), Pt(100))

====
